---- MODULE Spec2Model ----
(***************************************************************************)
(* Model of epistasis/models/nonlinear/regression.py: the Parameters       *)
(* container and the EpistasisNonlinearRegression estimator (constructor,  *)
(* fit, the widget callback, _fit_, thetas, hypothesis, to_json).          *)
(*                                                                         *)
(* Python objects are records; an instance's attribute dictionary is a     *)
(* function from attribute names to values.  Python indices are 0-based,   *)
(* TLA+ sequences 1-based: list element i is s[i+1].  The numerical        *)
(* libraries the code delegates to (scipy curve_fit, the linear epistasis  *)
(* regression) are deterministic stand-ins whose result depends on every   *)
(* input they are given.                                                   *)
(***************************************************************************)
EXTENDS Integers, Sequences, FiniteSets, TLC

\* ------------------------------------------------------------------ bounds
\* Fitted values and guesses range over 0..MaxVal.
MaxVal == 2
\* Number of distinct genotype-phenotype maps that can be attached.
NumGpm == 2
\* Longest thetas vector handed to hypothesis.
MaxTheta == 5

Vals == 0..MaxVal
Modulus == MaxVal + 1

\* ------------------------------------------------------- names and inputs
\* Argument lists of the nonlinear functions handed to the constructor.
\* Python forbids duplicate argument names; any identifier is allowed.
Signatures ==
  { <<>>, <<"x">>, <<"x", "A">>, <<"x", "A", "B">>, <<"y", "A">>, <<"A", "x">>,
    <<"x", "n">>, <<"x", "keys">>, <<"x", "A", "values">>, <<"x", "_mapping">>,
    <<"x", "_param_list">>, <<"x", "A", "_mapping_">>,
    <<"x", "get_params">>, <<"x", "_set_param">> }

\* The keyword arguments a caller passes to fit, or the widget box to its
\* callback: (name, value) pairs in call order.  "zz" names no parameter.
KwArgs ==
  { <<>>, << <<"A", 0>> >>, << <<"A", 2>> >>, << <<"B", 2>> >>, << <<"zz", 0>> >>,
    << <<"A", 2>>, <<"B", 0>> >> }

\* Attributes of class Parameters that are properties without a setter.
ReadOnlyProps == {"keys", "values"}
\* Instance attributes Parameters.__init__ subscripts while it is looping.
InternalFields == {"_param_list", "_mapping_", "_mapping"}

Orders == {1, 2}

\* ------------------------------------------------------------ small helpers
\* Python len() of a list.
len(s) == Len(s)

\* s[a:b] of Python: the elements with 0-based index in a..b-1 that exist.
Slice(s, a, b) ==
  LET lo == IF a < Len(s) THEN a ELSE Len(s)
      hi == IF b < Len(s) THEN b ELSE Len(s)
  IN  IF hi <= lo THEN <<>> ELSE [k \in 1..(hi - lo) |-> s[lo + k]]

RECURSIVE Mix(_)
\* A deterministic digest of a sequence of naturals, in Vals: what a numerical
\* routine returns is a function of all of its inputs, in their order.
Mix(s) == IF s = <<>> THEN 1
          ELSE (2 * Mix(Tail(s)) + Head(s) + Len(s)) % Modulus

RECURSIVE Dot(_, _)
\* Inner product of two vectors of the same length.
Dot(u, v) == IF u = <<>> THEN 0 ELSE Head(u) * Head(v) + Dot(Tail(u), Tail(v))

\* ---------------------------------------------------------------- Parameters
\* setattr(self, name, value) on a Parameters instance whose name is neither a
\* read-only property nor an internal field: an entry of the instance dictionary.
SetAttr(attrs, name, value) == (name :> value) @@ attrs

Raise(kind, obj) == [ok |-> FALSE, err |-> kind, obj |-> obj]
Return(obj) == [ok |-> TRUE, err |-> "", obj |-> obj]

RECURSIVE InitLoop_shifted(_, _, _)
\* Variant of the loop that numbers the names from 1 in the name -> index map.
InitLoop_shifted(p, i, cnt) ==
  IF i >= cnt THEN Return(p)
  ELSE LET name == p._param_list[i + 1] IN
       IF name \in ReadOnlyProps THEN Raise("AttributeError", p)
       ELSE IF name \in InternalFields THEN Raise("TypeError", p)
       ELSE InitLoop_shifted([p EXCEPT !.attrs = SetAttr(@, name, 0),
                                       !._mapping_ = (i :> name) @@ @,
                                       !._mapping = (name :> i + 1) @@ @],
                             i + 1, cnt)

RECURSIVE InitLoop(_, _, _)
\* The loop of Parameters.__init__, `for i in range(self.n)`, from index i; cnt is
\* range's bound, read once before the loop.
InitLoop(p, i, cnt) ==
  IF i >= cnt THEN Return(p)
  ELSE LET name == p._param_list[i + 1] IN
       IF name \in ReadOnlyProps THEN Raise("AttributeError", p)
       ELSE IF name \in InternalFields THEN Raise("TypeError", p)
       ELSE InitLoop([p EXCEPT !.attrs = SetAttr(@, name, 0),
                               !._mapping_ = (i :> name) @@ @,
                               !._mapping = (name :> i) @@ @],
                     i + 1, cnt)

\* Parameters(params)
ParametersInit(params) ==
  InitLoop([_param_list |-> params,
            attrs |-> ("n" :> len(params)),
            _mapping |-> <<>>,
            _mapping_ |-> <<>>],
           0, len(params))

\* Parameters.keys
keys(p) == p._param_list

\* Parameters.values: getattr of every name of _param_list, in order.
values(p) == [k \in 1..Len(p._param_list) |-> p.attrs[p._param_list[k]]]

\* Whether a method of the class is hidden by an instance attribute of its name.
Shadowed(p, method) == method \in DOMAIN p.attrs

\* Parameters.get_params(): raises when the method is shadowed by a value.
get_params(p) ==
  IF Shadowed(p, "get_params") THEN Raise("TypeError", <<>>)
  ELSE Return([k \in 1..Cardinality(DOMAIN p._mapping_) |->
                 p.attrs[p._mapping_[k - 1]]])

\* Parameters.__call__(): dict(zip(keys, values)) as a list of (name, value).
Call(p) == [k \in 1..Len(keys(p)) |-> <<keys(p)[k], values(p)[k]>>]

\* Parameters._set_param(param, value); param is an index (isInt) or a name.
\* Raises KeyError for an index the mapping does not hold, TypeError when the
\* method itself is shadowed; a name is set whatever it is.
_set_param(p, isInt, param, value) ==
  IF Shadowed(p, "_set_param") THEN Raise("TypeError", p)
  ELSE IF isInt /\ param \notin DOMAIN p._mapping_ THEN Raise("KeyError", p)
  ELSE LET name == IF isInt THEN p._mapping_[param] ELSE param IN
       Return([p EXCEPT !.attrs = SetAttr(@, name, value)])

\* ------------------------------------------------- the delegated numerics
\* Columns of the design matrix of an epistasis model of the given order over two
\* binary sites: intercept, the two sites, and from order 2 on their pair.
Xmat(ord) ==
  IF ord = 1 THEN << <<1, 1, 0>>, <<1, 1, 1>> >>
  ELSE << <<1, 1, 0, 0>>, <<1, 1, 1, 1>> >>

\* Number of coefficients of a model of that order: epistasis.n, len(epistasis.sites).
SitesN(ord) == Len(Xmat(ord)[1])

\* EpistasisLinearRegression(order=ord): a new, unfitted linear model.
NewLinear(ord) ==
  [order |-> ord, gpm |-> 0, X |-> 0, fitted |-> FALSE, coef_ |-> <<>>, y |-> 0]

\* EpistasisLinearRegression.fit on response y: least-squares coefficients.
LinearFit(m, y) ==
  [m EXCEPT !.fitted = TRUE, !.y = y,
            !.coef_ = [k \in 1..SitesN(m.order) |-> Mix(<<m.order, y, k>>)]]

\* EpistasisLinearRegression.predict(): the fitted model's predictions.
LinearPredict(m) == Mix(m.coef_)

\* The user's nonlinear function applied to one x with the given parameters;
\* Python raises TypeError when the argument count is not the declared one.
Function(fnsig, x, params) ==
  IF Len(params) # Len(fnsig) - 1 THEN Raise("TypeError", 0)
  ELSE Return(Mix(<<x % Modulus>> \o params))

\* The user's inverse function applied to the response.
Reverse(y, params) == Mix(<<y % Modulus, 1>> \o params)

\* scipy.optimize.curve_fit(function, x, y, p0=guesses): the optimum reached from
\* p0.  The function is called with len(p0) parameters.
curve_fit(fnsig, x, y, p0) ==
  IF Len(p0) # Len(fnsig) - 1 THEN Raise("TypeError", <<>>)
  ELSE Return([k \in 1..Len(p0) |-> Mix(<<x, y, k>> \o p0)])

\* numpy.ones(n), numpy.zeros(n)
ones(n) == [k \in 1..n |-> 1]
zeros(n) == [k \in 1..n |-> 0]

\* json.dump(obj, fp): serialises obj and writes it to fp.  A file object is not
\* JSON serialisable, and nothing is written before the encoder finds that out.
JsonDump(obj, fp) ==
  IF obj.kind = "dict" /\ fp.kind = "file" THEN Return(<<obj.items>>)
  ELSE Raise("TypeError", <<>>)

\* ---------------------------------------------------------------- keyword args
RECURSIVE GuessLoop(_, _, _)
\* `for kw in kwargs: index = _mapping[kw]; guesses[index] = kwargs[kw]`
GuessLoop(g, kw, p) ==
  IF kw = <<>> THEN Return(g)
  ELSE LET name == Head(kw)[1]
           val == Head(kw)[2]
       IN  IF name \notin DOMAIN p._mapping THEN Raise("KeyError", g)
           ELSE LET index == p._mapping[name] IN
                IF index >= Len(g) THEN Raise("IndexError", g)
                ELSE GuessLoop([g EXCEPT ![index + 1] = val], Tail(kw), p)

\* Variant that starts the solver from the values of the previous fit.
Guesses_warm(p, kw) == GuessLoop(values(p), kw, p)

\* "Set up guesses" of _fit_: ones(parameters.n), overridden by the keywords.
Guesses(p, kw) == GuessLoop(ones(p.attrs["n"]), kw, p)

\* ----------------------------------------------------------------- estimator
VARIABLES
  constructed,   \* "none" before __init__, then "ok" or "failed"
  sig,           \* the argument list of the function handed to __init__
  selfAttrs,     \* names of the attributes the estimator instance holds
  order,         \* self.order
  parameters,    \* self.parameters: the Parameters instance
  paramsId,      \* identity of the object self.parameters refers to
  gpm,           \* self.gpm: the attached genotype-phenotype map (its phenotypes)
  Additive,      \* self.Additive: reference into heap, 0 when unset
  Linear,        \* self.Linear: reference into heap, 0 when unset
  heap,          \* the linear sub-model objects, by reference
  coef_,         \* self.coef_
  widget,        \* the widget box built by fit(use_widgets=True)
  pc,            \* position inside a running _fit_ call, "idle" outside
  frame,         \* locals of the running call
  trace,         \* the calls the running (or last) _fit_ has made, in order
  file,          \* the file to_json writes
  ret,           \* what the last operation returned (and hypothesis's argument)
  err            \* the exception the last operation raised, "" for none

vars == <<constructed, sig, selfAttrs, order, parameters, paramsId, gpm, Additive,
          Linear, heap, coef_, widget, pc, frame, trace, file, ret, err>>

estimator == <<selfAttrs, order, parameters, paramsId, gpm, Additive, Linear, heap,
               coef_>>

NoParameters ==
  [_param_list |-> <<>>, attrs |-> <<>>, _mapping |-> <<>>, _mapping_ |-> <<>>]

NoFrame ==
  [mode |-> "", kwargs |-> <<>>, y |-> 0, x |-> 0, guesses |-> <<>>,
   popt |-> <<>>, i |-> 0, cnt |-> 0, before |-> <<>>]

NoWidget == [active |-> FALSE, y |-> 0, names |-> <<>>]

Ret(op, kind, val) == [op |-> op, kind |-> kind, val |-> val, arg |-> <<>>]

Init ==
  /\ constructed = "none"
  /\ sig = <<>>
  /\ selfAttrs = {}
  /\ order = 1
  /\ parameters = NoParameters
  /\ paramsId = 0
  /\ gpm = 0
  /\ Additive = 0
  /\ Linear = 0
  /\ heap = [r \in {1, 2} |-> NewLinear(1)]
  /\ coef_ = <<>>
  /\ widget = NoWidget
  /\ pc = "idle"
  /\ frame = NoFrame
  /\ trace = <<>>
  /\ file = [exists |-> FALSE, chunks |-> <<>>]
  /\ ret = Ret("", "none", <<>>)
  /\ err = ""

\* EpistasisNonlinearRegression.__init__(function, reverse, order)
Construct(fnsig, ord) ==
  /\ constructed = "none"
  /\ sig' = fnsig
  /\ UNCHANGED <<gpm, Additive, Linear, heap, coef_, widget, pc, frame, trace, file>>
  /\ IF fnsig = <<>>
       THEN \* parameters[0] of an empty list
            /\ constructed' = "failed" /\ err' = "IndexError"
            /\ ret' = Ret("__init__", "raised", <<>>)
            /\ UNCHANGED <<selfAttrs, order, parameters, paramsId>>
     ELSE IF fnsig[1] # "x"
       THEN /\ constructed' = "failed"
            /\ err' = "Exception: First argument of the nonlinear function must be x"
            /\ ret' = Ret("__init__", "raised", <<>>)
            /\ UNCHANGED <<selfAttrs, order, parameters, paramsId>>
     ELSE LET r == ParametersInit(Tail(fnsig)) IN
          IF r.ok
            THEN /\ constructed' = "ok" /\ err' = ""
                 /\ ret' = Ret("__init__", "self", <<>>)
                 /\ selfAttrs' = {"function", "reverse", "parameters", "order"}
                 /\ parameters' = r.obj
                 /\ paramsId' = 1
                 /\ order' = ord
            ELSE /\ constructed' = "failed" /\ err' = r.err
                 /\ ret' = Ret("__init__", "raised", <<>>)
                 /\ selfAttrs' = {"function", "reverse"}
                 /\ UNCHANGED <<order, parameters, paramsId>>

\* BaseModel.attach_gpm(gpm): the estimator gets its data.
attach_gpm(d) ==
  /\ constructed = "ok" /\ pc = "idle"
  /\ gpm' = d
  /\ selfAttrs' = selfAttrs \cup {"gpm", "X"}
  /\ ret' = Ret("attach_gpm", "none", <<>>) /\ err' = ""
  /\ UNCHANGED <<constructed, sig, order, parameters, paramsId, Additive, Linear,
                 heap, coef_, widget, pc, frame, trace, file>>

\* Entry into _fit_(X, y, **kwargs) with the given locals.
EnterFit(mode, y, kw) ==
  /\ pc' = "additive"
  /\ frame' = [NoFrame EXCEPT !.mode = mode, !.kwargs = kw, !.y = y,
                              !.before = values(parameters)]
  /\ trace' = <<>>
  /\ ret' = Ret(mode, "running", <<>>)
  /\ err' = ""

\* Variant of fit that prepares the sub-models before it looks for the map.
fit_prepares_first(use_widgets, kw) ==
  /\ constructed = "ok" /\ pc = "idle"
  /\ UNCHANGED <<constructed, sig, order, parameters, paramsId, gpm, file>>
  /\ Additive' = 1
  /\ Linear' = 2
  /\ heap' = (1 :> [NewLinear(1) EXCEPT !.gpm = gpm])
             @@ (2 :> [NewLinear(order) EXCEPT !.X = order])
  /\ coef_' = zeros(SitesN(order))
  /\ selfAttrs' = selfAttrs \cup {"Additive", "Linear", "coef_"}
  /\ IF "gpm" \notin selfAttrs
       THEN /\ err' = "Exception: Use the attach_gpm method"
            /\ ret' = Ret("fit", "raised", <<>>)
            /\ UNCHANGED <<widget, pc, frame, trace>>
     ELSE IF use_widgets
       THEN /\ widget' = [active |-> TRUE, y |-> gpm,
                          names |-> [k \in 1..Len(kw) |-> kw[k][1]]]
            /\ ret' = Ret("fit", "widgetbox", <<>>)
            /\ err' = ""
            /\ UNCHANGED <<pc, frame, trace>>
       ELSE /\ EnterFit("fit", gpm, kw)
            /\ UNCHANGED widget

\* EpistasisNonlinearRegression.fit(use_widgets=use_widgets, **kw)
fit(use_widgets, kw) ==
  /\ constructed = "ok" /\ pc = "idle"
  /\ UNCHANGED <<constructed, sig, order, parameters, paramsId, gpm, file>>
  /\ IF "gpm" \notin selfAttrs
       THEN /\ err' = "Exception: Use the attach_gpm method"
            /\ ret' = Ret("fit", "raised", <<>>)
            /\ UNCHANGED <<selfAttrs, Additive, Linear, heap, coef_, widget, pc,
                           frame, trace>>
       ELSE /\ Additive' = 1
            /\ Linear' = 2
            /\ heap' = (1 :> [NewLinear(1) EXCEPT !.gpm = gpm])
                       @@ (2 :> [NewLinear(order) EXCEPT !.X = order])
            /\ coef_' = zeros(SitesN(order))
            /\ selfAttrs' = selfAttrs \cup {"Additive", "Linear", "coef_"}
            /\ IF use_widgets
                 THEN /\ widget' = [active |-> TRUE, y |-> gpm,
                                    names |-> [k \in 1..Len(kw) |-> kw[k][1]]]
                      /\ ret' = Ret("fit", "widgetbox", <<>>)
                      /\ err' = ""
                      /\ UNCHANGED <<pc, frame, trace>>
                 ELSE /\ EnterFit("fit", gpm, kw)
                      /\ UNCHANGED widget

\* The widget box calls fitting(**kw): one value for each of its sliders.
fitting(kw) ==
  /\ constructed = "ok" /\ pc = "idle" /\ widget.active
  /\ [k \in 1..Len(kw) |-> kw[k][1]] = widget.names
  /\ EnterFit("widget", widget.y, kw)
  /\ UNCHANGED <<constructed, sig, estimator, widget, file>>

\* An exception leaves the running call.
Fail(e) ==
  /\ pc' = "idle"
  /\ err' = e
  /\ ret' = Ret(frame.mode, "raised", <<>>)
  /\ frame' = NoFrame
  /\ trace' = <<>>

\* _fit_ part 1: self.Additive.fit(); x = self.Additive.predict()
FitAdditive ==
  /\ pc = "additive"
  /\ LET m == LinearFit(heap[Additive], heap[Additive].gpm) IN
       /\ heap' = [heap EXCEPT ![Additive] = m]
       /\ frame' = [frame EXCEPT !.x = LinearPredict(m)]
  /\ trace' = Append(trace, "Additive.fit")
  /\ pc' = "guess"
  /\ UNCHANGED <<constructed, sig, selfAttrs, order, parameters, paramsId, gpm,
                 Additive, Linear, coef_, widget, file, ret, err>>

\* _fit_: set up guesses
SetGuesses ==
  /\ pc = "guess"
  /\ LET r == Guesses(parameters, frame.kwargs) IN
       IF r.ok
         THEN /\ frame' = [frame EXCEPT !.guesses = r.obj]
              /\ pc' = "solve"
              /\ UNCHANGED <<trace, ret, err>>
         ELSE Fail(r.err)
  /\ UNCHANGED <<constructed, sig, estimator, widget, file>>

\* _fit_: popt, pcov = curve_fit(self.function, x, y, p0=guesses, ...)
\* The solver may also give up (RuntimeError: optimal parameters not found).
CurveFit(converges) ==
  /\ pc = "solve"
  /\ LET r == curve_fit(sig, frame.x, frame.y, frame.guesses) IN
       IF ~r.ok
         THEN Fail(r.err)
       ELSE IF ~converges
         THEN Fail("RuntimeError")
       ELSE /\ frame' = [frame EXCEPT !.popt = r.obj, !.i = 0,
                                      !.cnt = parameters.attrs["n"]]
            /\ trace' = Append(trace, "curve_fit")
            /\ pc' = "store"
            /\ UNCHANGED <<ret, err>>
  /\ UNCHANGED <<constructed, sig, estimator, widget, file>>

\* _fit_: one pass of `for i in range(0, self.parameters.n): _set_param(i, popt[i])`
StoreParam ==
  /\ pc = "store" /\ frame.i < frame.cnt
  /\ IF frame.i >= Len(frame.popt)
       THEN /\ Fail("IndexError") /\ UNCHANGED parameters
     ELSE LET r == _set_param(parameters, TRUE, frame.i, frame.popt[frame.i + 1]) IN
       IF r.ok
         THEN /\ parameters' = r.obj
              /\ frame' = [frame EXCEPT !.i = @ + 1]
              /\ trace' = Append(trace, "_set_param")
              /\ UNCHANGED <<pc, ret, err>>
         ELSE /\ Fail(r.err) /\ UNCHANGED parameters
  /\ UNCHANGED <<constructed, sig, selfAttrs, order, paramsId, gpm, Additive, Linear,
                 heap, coef_, widget, file>>

\* Variant that linearizes with the values the parameters had on entry.
linearized_y_stale == Reverse(frame.y, frame.before)

\* The y the high-order model is fitted on: reverse(y, *self.parameters.values)
linearized_y == Reverse(frame.y, values(parameters))

\* Variant that goes back to the first stage after the second, to iterate.
SecondStage_iterates ==
  /\ pc = "store" /\ frame.i >= frame.cnt
  /\ IF order > 1
       THEN /\ heap' = [heap EXCEPT ![Linear] = LinearFit(@, linearized_y)]
            /\ Linear' = Linear
            /\ trace' = trace \o <<"reverse", "Linear.fit">>
       ELSE /\ Linear' = Additive
            /\ heap' = heap
            /\ trace' = trace
  /\ coef_' = heap'[Linear'].coef_
  /\ pc' = IF Len(trace) < 2 * Len(frame.popt) + 4 THEN "additive"
           ELSE IF frame.mode = "widget" THEN "score" ELSE "return"
  /\ UNCHANGED <<constructed, sig, selfAttrs, order, parameters, paramsId, gpm,
                 Additive, widget, frame, file, ret, err>>

\* _fit_ part 3: fit the high-order linear model, or alias the additive one.
SecondStage ==
  /\ pc = "store" /\ frame.i >= frame.cnt
  /\ IF order > 1
       THEN /\ heap' = [heap EXCEPT
                          ![Linear] = LinearFit(@, linearized_y)]
            /\ Linear' = Linear
            /\ trace' = trace \o <<"reverse", "Linear.fit">>
       ELSE /\ Linear' = Additive
            /\ heap' = heap
            /\ trace' = trace
  /\ coef_' = heap'[Linear'].coef_
  /\ pc' = IF frame.mode = "widget" THEN "score" ELSE "return"
  /\ UNCHANGED <<constructed, sig, selfAttrs, order, parameters, paramsId, gpm,
                 Additive, widget, frame, file, ret, err>>

\* The widget callback after _fit_: print(self.score()) and the parameters.
Score ==
  /\ pc = "score"
  /\ IF get_params(parameters).ok
       THEN /\ trace' = Append(trace, "score")
            /\ pc' = "return"
            /\ UNCHANGED <<frame, ret, err>>
       ELSE Fail("TypeError")
  /\ UNCHANGED <<constructed, sig, estimator, widget, file>>

\* The call returns: fit returns self, the callback returns nothing.
ReturnFit ==
  /\ pc = "return"
  /\ pc' = "idle"
  /\ ret' = Ret(frame.mode, IF frame.mode = "fit" THEN "self" ELSE "none", <<>>)
  /\ err' = ""
  /\ frame' = NoFrame
  /\ trace' = <<>>
  /\ UNCHANGED <<constructed, sig, estimator, widget, file>>

\* A direct call parameters._set_param(param, value), by index or by name.
SetParam(isInt, param, value) ==
  /\ constructed = "ok" /\ pc = "idle"
  /\ LET r == _set_param(parameters, isInt, param, value) IN
       /\ parameters' = r.obj
       /\ err' = r.err
       /\ ret' = Ret("_set_param", IF r.ok THEN "none" ELSE "raised", <<>>)
  /\ UNCHANGED <<constructed, sig, selfAttrs, order, paramsId, gpm, Additive, Linear,
                 heap, coef_, widget, pc, frame, trace, file>>

\* Parameters.to_json(filename)
to_json ==
  /\ constructed = "ok" /\ pc = "idle"
  /\ IF Shadowed(parameters, "to_json")
       THEN /\ err' = "TypeError" /\ UNCHANGED file
            /\ ret' = Ret("to_json", "raised", <<>>)
       ELSE LET f == [kind |-> "file", items |-> <<>>]
                d == [kind |-> "dict", items |-> Call(parameters)]
                r == JsonDump(f, d)
            IN  \* open(filename, "w") creates or truncates the file
                /\ file' = [exists |-> TRUE, chunks |-> r.obj]
                /\ err' = r.err
                /\ ret' = Ret("to_json", IF r.ok THEN "none" ELSE "raised", <<>>)
  /\ UNCHANGED <<constructed, sig, estimator, widget, pc, frame, trace>>

\* The thetas property: concatenate((parameters.values, Linear.coef_))
thetas ==
  IF "Linear" \notin selfAttrs \/ ~heap[Linear].fitted
    THEN Raise("AttributeError", <<>>)
    ELSE Return(values(parameters) \o heap[Linear].coef_)

GetThetas ==
  /\ constructed = "ok" /\ pc = "idle"
  /\ ret' = Ret("thetas", IF thetas.ok THEN "value" ELSE "raised", thetas.obj)
  /\ err' = thetas.err
  /\ UNCHANGED <<constructed, sig, estimator, widget, pc, frame, trace, file>>

\* The two slices hypothesis cuts out of thetas.
SplitThetas(th) ==
  LET i == parameters.attrs["n"]
      j == SitesN(order)
  IN  [parameters |-> Slice(th, 0, i), epistasis |-> Slice(th, i, i + j)]

\* hypothesis(X, thetas) with X the design matrix of the model's order.
hypothesis(th) ==
  IF "X" \notin selfAttrs THEN Raise("Exception: X needs to be attached", <<>>)
  ELSE LET s == SplitThetas(th)
           X == Xmat(order)
       IN  IF Len(s.epistasis) # Len(X[1]) THEN Raise("ValueError", <<>>)
           ELSE IF ~Function(sig, 0, s.parameters).ok THEN Raise("TypeError", <<>>)
           ELSE Return([k \in 1..Len(X) |->
                          Function(sig, Dot(X[k], s.epistasis), s.parameters).obj])

\* Vectors handed to hypothesis: of every length up to MaxTheta.
ThetaInputs == {[k \in 1..l |-> k % Modulus] : l \in 0..MaxTheta}

Hypothesis(th) ==
  /\ constructed = "ok" /\ pc = "idle"
  /\ LET r == hypothesis(th) IN
       /\ ret' = [Ret("hypothesis", IF r.ok THEN "value" ELSE "raised", r.obj)
                   EXCEPT !.arg = th]
       /\ err' = r.err
  /\ UNCHANGED <<constructed, sig, estimator, widget, pc, frame, trace, file>>

\* The estimator's life: construction, data, fitting, and parameter updates.
Next ==
  \/ \E fnsig \in Signatures, ord \in Orders : Construct(fnsig, ord)
  \/ \E d \in 1..NumGpm : attach_gpm(d)
  \/ \E w \in BOOLEAN, kw \in KwArgs : fit(w, kw)
  \/ \E kw \in KwArgs : fitting(kw)
  \/ FitAdditive
  \/ SetGuesses
  \/ \E c \in BOOLEAN : CurveFit(c)
  \/ StoreParam
  \/ SecondStage
  \/ Score
  \/ ReturnFit
  \/ \E i \in 0..Len(keys(parameters)), v \in Vals : SetParam(TRUE, i, v)
  \/ \E k \in 1..Len(keys(parameters)), v \in Vals :
        SetParam(FALSE, keys(parameters)[k], v)

Spec == Init /\ [][Next]_vars

\* The same with the operations that only read the estimator.
NextAll ==
  \/ Next
  \/ to_json
  \/ GetThetas
  \/ \E th \in ThetaInputs \cup (IF thetas.ok THEN {thetas.obj} ELSE {}) :
        Hypothesis(th)

SpecAll == Init /\ [][NextAll]_vars

\* ===================================================================== claims
DescriptiveError == "Exception: First argument of the nonlinear function must be x"
AttachGpmError == "Exception: Use the attach_gpm method"

FirstIsX == sig # <<>> /\ sig[1] = "x"

\* The value the keywords give for a name, dflt when they do not name it.
KwValue(kw, name, dflt) ==
  IF \E a \in 1..Len(kw) : kw[a][1] = name
    THEN kw[CHOOSE a \in 1..Len(kw) : kw[a][1] = name][2]
    ELSE dflt

IsPrefix(a, b) == Len(a) <= Len(b) /\ a = SubSeq(b, 1, Len(a))

\* C1: after the constructor has run, a function whose first argument is `x` has
\* given an estimator; any other argument list, the empty one included, has given
\* the descriptive error and stored no function, reverse or Parameters.
C1_ConstructorContract ==
  constructed # "none" =>
    IF FirstIsX THEN constructed = "ok"
    ELSE /\ constructed = "failed"
         /\ err = DescriptiveError
         /\ selfAttrs \cap {"function", "reverse", "parameters"} = {}

Bidirectional(p) ==
  /\ DOMAIN p._mapping_ = 0..(Len(keys(p)) - 1)
  /\ DOMAIN p._mapping = {keys(p)[k] : k \in 1..Len(keys(p))}
  /\ \A i \in DOMAIN p._mapping_ :
        p._mapping[p._mapping_[i]] = i /\ keys(p)[i + 1] = p._mapping_[i]
  /\ \A k \in DOMAIN p._mapping : p._mapping_[p._mapping[k]] = k

\* C3: in every state of a constructed estimator the keys are the function's
\* argument names without the first, in order; the name->index and index->name
\* lookups are inverse and agree with the keys; the Parameters object is the one
\* built by the constructor; and right after construction every value is 0.  So no
\* fit and no _set_param changes the keys, their order or a lookup.
C3_ParametersStructure ==
  constructed = "ok" =>
    /\ keys(parameters) = Tail(sig)
    /\ Bidirectional(parameters)
    /\ paramsId = 1
    /\ ret.op = "__init__" =>
         \A k \in 1..Len(keys(parameters)) : values(parameters)[k] = 0

C3_Witness ==
  /\ constructed = "ok" /\ pc = "idle"
  /\ ret.op = "fit" /\ ret.kind = "self"
  /\ Len(keys(parameters)) = 2
  /\ values(parameters)[1] # 0 /\ values(parameters)[2] # 0

\* C4: after to_json the call has raised nothing and the file holds the JSON
\* serialisation of the current name -> value mapping.
C4_ToJsonWrites ==
  ret.op = "to_json" =>
    /\ ret.kind = "none" /\ err = ""
    /\ file.exists
    /\ file.chunks = <<Call(parameters)>>

\* The calls one complete _fit_ makes, in order.
ExpectedTrace ==
  <<"Additive.fit", "curve_fit">>
  \o [k \in 1..Len(keys(parameters)) |-> "_set_param"]
  \o (IF order > 1 THEN <<"reverse", "Linear.fit">> ELSE <<>>)
  \o (IF frame.mode = "widget" THEN <<"score">> ELSE <<>>)

\* C5: during a non-widget fit the calls made so far are a prefix of: Additive.fit
\* once, curve_fit once, one _set_param per parameter, then (order > 1 only)
\* reverse and Linear.fit once; when the call returns they are exactly that; and
\* the solver's independent variable is the prediction of the additive model as
\* fitted in this call.
C5_SinglePass ==
  (pc # "idle" /\ frame.mode = "fit") =>
    /\ IsPrefix(trace, ExpectedTrace)
    /\ pc = "return" => trace = ExpectedTrace
    /\ pc \in {"guess", "solve", "store", "return"} =>
         /\ heap[Additive].fitted
         /\ frame.x = LinearPredict(heap[Additive])

C5_Witness ==
  /\ pc = "return" /\ frame.mode = "fit" /\ order = 2
  /\ Len(keys(parameters)) = 2
  /\ Len(trace) = 6

\* C6: once the second stage of _fit_ has run: with order > 1 the Linear model is
\* an object other than Additive and was fitted on reverse(y, popt), popt being the
\* values this call's solver returned; with order = 1 reverse was not called and
\* Linear is the Additive object; in both cases coef_ is Linear.coef_.
C6_SecondStage ==
  pc \in {"score", "return"} =>
    /\ coef_ = heap[Linear].coef_
    /\ order > 1 =>
         /\ Linear # Additive
         /\ heap[Linear].fitted
         /\ heap[Linear].y = Reverse(frame.y, frame.popt)
         /\ values(parameters) = frame.popt
    /\ order = 1 =>
         /\ Linear = Additive
         /\ \A k \in 1..Len(trace) : trace[k] # "reverse"

C6_Witness ==
  /\ pc = "return" /\ order = 2
  /\ frame.popt # <<>>
  /\ frame.before # frame.popt
  /\ \E k \in 1..Len(frame.before) : frame.before[k] # 0

\* C7: when the solver is called, the guess vector has one entry per parameter, in
\* key order, the keyword's value where a keyword names the parameter and 1
\* otherwise, and every keyword names a parameter; and until the solver has
\* returned the Parameters values are those from before the call.
C7_Guesses ==
  /\ pc = "solve" =>
       /\ Len(frame.guesses) = Len(keys(parameters))
       /\ \A k \in 1..Len(frame.guesses) :
             k <= Len(keys(parameters)) =>
               frame.guesses[k] = KwValue(frame.kwargs, keys(parameters)[k], 1)
       /\ \A a \in 1..Len(frame.kwargs) :
             frame.kwargs[a][1] \in DOMAIN parameters._mapping
  /\ pc \in {"additive", "guess", "solve"} => values(parameters) = frame.before

\* function(X . coefficients, *parameters) for thetas laid out as one value per
\* nonlinear parameter followed by one coefficient per epistasis site.
HypothesisOf(th) ==
  LET np == Len(keys(parameters))
      ps == SubSeq(th, 1, np)
      cs == SubSeq(th, np + 1, np + SitesN(order))
  IN  [k \in 1..Len(Xmat(order)) |->
         Mix(<<Dot(Xmat(order)[k], cs) % Modulus>> \o ps)]

\* C8: hypothesis, given thetas that hold a value per nonlinear parameter and then
\* a coefficient per site, returns function(X . coefficients, *parameters); and the
\* thetas of a fitted model, cut the way hypothesis cuts its argument, give back
\* the parameter values and Linear.coef_.
C8_ThetasLayout ==
  /\ (/\ ret.op = "hypothesis" /\ "X" \in selfAttrs
      /\ Len(ret.arg) >= Len(keys(parameters)) + SitesN(order)) =>
        /\ ret.kind = "value"
        /\ ret.val = HypothesisOf(ret.arg)
  /\ thetas.ok =>
       /\ SplitThetas(thetas.obj).parameters = values(parameters)
       /\ SplitThetas(thetas.obj).epistasis = heap[Linear].coef_

\* C9: every function whose first argument is `x` gives a Parameters container,
\* and in every state n = len(keys) = len(values) = len(get_params()) and values
\* and get_params() are the same list.
C9_ParametersCounts ==
  /\ (constructed # "none" /\ FirstIsX) => constructed = "ok"
  /\ constructed = "ok" =>
       /\ parameters.attrs["n"] = Len(keys(parameters))
       /\ Len(values(parameters)) = Len(keys(parameters))
       /\ get_params(parameters).ok
       /\ get_params(parameters).obj = values(parameters)

\* What one _fit_ on the additive model's data d and the response y with the
\* keywords kw leaves behind, computed from those alone.
FitOutcome(d, y, kw) ==
  LET add == LinearFit([NewLinear(1) EXCEPT !.gpm = d], d)
      g == [k \in 1..Len(keys(parameters)) |-> KwValue(kw, keys(parameters)[k], 1)]
      popt == curve_fit(sig, LinearPredict(add), y, g).obj
      lin == LinearFit([NewLinear(order) EXCEPT !.X = order], Reverse(y, popt))
  IN  [values |-> popt,
       coef_ |-> IF order > 1 THEN lin.coef_ ELSE add.coef_,
       aliased |-> (order = 1)]

====
